---- MODULE Spec2Model ----
(***************************************************************************)
(* Model of vllm/v1/attention/backends/pallas.py: the Pallas (TPU)        *)
(* attention backend.  PallasAttentionBackend's geometry functions,       *)
(* PallasAttentionBackendImpl.__init__ / forward and write_to_kv_cache.   *)
(*                                                                         *)
(* Tensors are records [shape |-> <<d1, ..., dn>>, data |-> nested         *)
(* sequences of integers]; Python's 0-based index i is position i + 1.    *)
(* Optional values: <<>> is None, <<x>> is the value x.                    *)
(***************************************************************************)
EXTENDS Integers, Sequences, FiniteSets, TLC

VARIABLES
    geom,       \* a capability query: the calls still to make and those made
    impl,       \* the PallasAttentionBackendImpl instance (<<>>: none exists)
    init_call,  \* the arguments and the outcome of the __init__ call
    warnings,   \* messages emitted through logger.warning_once
    kv_cache,   \* the page pool tensor handed to forward
    call,       \* what the last forward call was given and did
    ncalls,     \* forward calls made so far
    last_written
                \* bookkeeping of the calls made: for each flat slot, the
                \* payload of the token the latest writing call mapped to
                \* it (0: none did)

vars ==
    <<geom, impl, init_call, warnings, kv_cache, call, ncalls, last_written>>

None == <<>>
Some(x) == <<x>>

----------------------------------------------------------------------------
\* Program constants

\* pallas.py:21
TPU_HEAD_SIZE_ALIGNMENT == 128

\* pallas.py:73  (1024 * 1024: the SMEM size in bytes)
SMEM_BYTES == 1048576

\* pallas.py:160  minimum TPU generation
MIN_TPU_VERSION == 4

----------------------------------------------------------------------------
\* Helpers of vllm.utils and of the Python runtime

\* vllm.utils.cdiv: ceiling division of positive integers
cdiv(a, b) == (a + b - 1) \div b

\* int.bit_length(): the number of bits of a non-negative integer
RECURSIVE bit_length(_)
bit_length(n) == IF n = 0 THEN 0 ELSE 1 + bit_length(n \div 2)

\* vllm.utils.next_power_of_2
next_power_of_2(n) == IF n < 1 THEN 1 ELSE 2 ^ bit_length(n - 1)

----------------------------------------------------------------------------
\* PallasAttentionBackend: geometry (static methods)

\* mutant: the page count is not reduced when the head size is padded
get_kv_cache_shape_unadjusted(num_blocks, block_size, num_kv_heads, head_size) ==
    LET padded_head_size ==
            cdiv(head_size, TPU_HEAD_SIZE_ALIGNMENT) * TPU_HEAD_SIZE_ALIGNMENT
    IN  <<num_blocks, block_size, num_kv_heads * 2, padded_head_size>>

get_kv_cache_shape(num_blocks, block_size, num_kv_heads, head_size) ==
    LET padded_head_size ==
            cdiv(head_size, TPU_HEAD_SIZE_ALIGNMENT) * TPU_HEAD_SIZE_ALIGNMENT
        adjusted == (num_blocks * head_size) \div padded_head_size
    IN  <<adjusted, block_size, num_kv_heads * 2, padded_head_size>>

\* the warning_once of get_kv_cache_shape (lines 52-55): whether it warns
get_kv_cache_shape_warns(head_size) ==
    cdiv(head_size, TPU_HEAD_SIZE_ALIGNMENT) * TPU_HEAD_SIZE_ALIGNMENT
        # head_size

\* mutant: swap_blocks returns without doing anything
swap_blocks_silent(src_kv_cache, dst_kv_cache, src_to_dst) ==
    [error |-> "none", src_kv_cache |-> src_kv_cache,
     dst_kv_cache |-> dst_kv_cache]

\* lines 59-65: the error raised and the two caches afterwards
swap_blocks(src_kv_cache, dst_kv_cache, src_to_dst) ==
    [error |-> "RuntimeError: swap_blocks is not used for the TPU backend.",
     src_kv_cache |-> src_kv_cache,
     dst_kv_cache |-> dst_kv_cache]

\* mutant: bit_length of min_page_size instead of min_page_size - 1
get_min_page_size_overshoot(max_model_len, max_num_seqs) ==
    LET max_num_page_per_req == ((SMEM_BYTES \div 2) \div max_num_seqs) \div 4
        min_page_size == cdiv(max_model_len, max_num_page_per_req)
    IN  2 ^ bit_length(min_page_size)

get_min_page_size(max_model_len, max_num_seqs) ==
    LET max_num_page_per_req == ((SMEM_BYTES \div 2) \div max_num_seqs) \div 4
        min_page_size == cdiv(max_model_len, max_num_page_per_req)
    IN  2 ^ bit_length(min_page_size - 1)

\* mutant: the upper clamp is missing
get_page_size_unclamped(max_model_len) ==
    LET page_size == next_power_of_2(max_model_len) \div 16
    IN  IF page_size <= 16 THEN 16 ELSE page_size

get_page_size(max_model_len) ==
    LET page_size == next_power_of_2(max_model_len) \div 16
    IN  IF page_size <= 16 THEN 16
        ELSE IF page_size >= 256 THEN 256
        ELSE page_size

----------------------------------------------------------------------------
\* Tensor operations of torch used by forward and write_to_kv_cache.
\* Storage is row-major: view and reshape keep the flat order of elements.

RECURSIVE Product(_)
Product(shape) ==
    IF shape = <<>> THEN 1 ELSE Head(shape) * Product(Tail(shape))

numel(t) == Product(t.shape)

\* element at 0-based flat index i of a 2-D / 3-D tensor
FlatAt2(t, i) == t.data[(i \div t.shape[2]) + 1][(i % t.shape[2]) + 1]

FlatAt3(t, i) ==
    t.data[(i \div (t.shape[2] * t.shape[3])) + 1]
          [((i \div t.shape[3]) % t.shape[2]) + 1]
          [(i % t.shape[3]) + 1]

\* whether a tensor of n elements can be viewed as [d0, d1, d2] (d0 = -1:
\* inferred)
ViewOk(n, d0, d1, d2) ==
    IF d0 = -1 THEN d1 * d2 > 0 /\ n % (d1 * d2) = 0 ELSE n = d0 * d1 * d2

ViewRows(n, d0, d1, d2) == IF d0 = -1 THEN n \div (d1 * d2) ELSE d0

\* Tensor.view(d0, d1, d2) of a 2-D tensor
view3(t, d0, d1, d2) ==
    LET rows == ViewRows(numel(t), d0, d1, d2)
    IN  [shape |-> <<rows, d1, d2>>,
         data |-> [r \in 1..rows |-> [h \in 1..d1 |-> [j \in 1..d2 |->
                     FlatAt2(t, ((r - 1) * d1 + (h - 1)) * d2 + (j - 1))]]]]

\* Tensor.reshape(d0, d1, d2) of a 3-D tensor
reshape3(t, d0, d1, d2) ==
    LET rows == ViewRows(numel(t), d0, d1, d2)
    IN  [shape |-> <<rows, d1, d2>>,
         data |-> [r \in 1..rows |-> [h \in 1..d1 |-> [j \in 1..d2 |->
                     FlatAt3(t, ((r - 1) * d1 + (h - 1)) * d2 + (j - 1))]]]]

\* torch.nn.functional.pad(t, (0, amount), value=0.0) of a 3-D tensor
pad_last(t, amount) ==
    [shape |-> <<t.shape[1], t.shape[2], t.shape[3] + amount>>,
     data |-> [r \in 1..t.shape[1] |-> [h \in 1..t.shape[2] |->
                 [j \in 1..(t.shape[3] + amount) |->
                    IF j <= t.shape[3] THEN t.data[r][h][j] ELSE 0]]]]

\* torch.cat([a, b], axis=-1) of two 3-D tensors
CatOk(a, b) == a.shape[1] = b.shape[1] /\ a.shape[2] = b.shape[2]

cat_last(a, b) ==
    [shape |-> <<a.shape[1], a.shape[2], a.shape[3] + b.shape[3]>>,
     data |-> [r \in 1..a.shape[1] |-> [h \in 1..a.shape[2] |->
                 [j \in 1..(a.shape[3] + b.shape[3]) |->
                    IF j <= a.shape[3] THEN a.data[r][h][j]
                    ELSE b.data[r][h][j - a.shape[3]]]]]]

----------------------------------------------------------------------------
\* write_to_kv_cache

\* index_copy_ with duplicate indices is nondeterministic: for each index
\* that occurs, some row of the source with that index is the one that
\* stays.  The possible choices of the surviving source row per index.
IndexCopyWinners(index) ==
    LET used == {index[i] : i \in DOMAIN index}
    IN  {w \in [used -> DOMAIN index] : \A s \in used : index[w[s]] = s}

\* mutant: the rows that are not indexed are cleared
index_copy_flat_clearing(cache, index, source, w) ==
    [shape |-> cache.shape,
     data |-> [p \in 1..cache.shape[1] |-> [o \in 1..cache.shape[2] |->
                 LET s == (p - 1) * cache.shape[2] + (o - 1)
                 IN  IF s \in DOMAIN w THEN source.data[w[s]]
                     ELSE [c \in 1..cache.shape[3] |->
                             [e \in 1..cache.shape[4] |-> 0]]]]]

\* mutant: the flattened rows are taken in (offset, page) order
index_copy_flat_offset_major(cache, index, source, w) ==
    [shape |-> cache.shape,
     data |-> [p \in 1..cache.shape[1] |-> [o \in 1..cache.shape[2] |->
                 LET s == (o - 1) * cache.shape[1] + (p - 1)
                 IN  IF s \in DOMAIN w THEN source.data[w[s]]
                     ELSE cache.data[p][o]]]]

\* kv_cache.flatten(0, 1).index_copy_(0, index, source), the rows of the
\* flattened view being those of kv_cache in (page, offset) order
index_copy_flat(cache, index, source, w) ==
    [shape |-> cache.shape,
     data |-> [p \in 1..cache.shape[1] |-> [o \in 1..cache.shape[2] |->
                 LET s == (p - 1) * cache.shape[2] + (o - 1)
                 IN  IF s \in DOMAIN w THEN source.data[w[s]]
                     ELSE cache.data[p][o]]]]

\* mutant: key and value of a head stay in one row of twice the width
combined_kv_unsplit(key, value, cache) ==
    LET num_combined_kv_heads == cache.shape[3]
        head_size ==
            cdiv(cache.shape[4], TPU_HEAD_SIZE_ALIGNMENT)
                * TPU_HEAD_SIZE_ALIGNMENT
    IN  reshape3(cat_last(key, value), -1, num_combined_kv_heads \div 2,
                 2 * head_size)

\* lines 257-260: kv, the block of rows write_to_kv_cache builds
combined_kv(key, value, cache) ==
    LET num_combined_kv_heads == cache.shape[3]
        head_size ==
            cdiv(cache.shape[4], TPU_HEAD_SIZE_ALIGNMENT)
                * TPU_HEAD_SIZE_ALIGNMENT
    IN  reshape3(cat_last(key, value), -1, num_combined_kv_heads, head_size)

\* mutant: the value is concatenated before the key
write_to_kv_cache_value_first(key, value, cache, slot_mapping) ==
    LET num_combined_kv_heads == cache.shape[3]
        head_size ==
            cdiv(cache.shape[4], TPU_HEAD_SIZE_ALIGNMENT)
                * TPU_HEAD_SIZE_ALIGNMENT
        both == cat_last(value, key)
        kv == reshape3(both, -1, num_combined_kv_heads, head_size)
    IN  IF ~CatOk(key, value)
        THEN {[error |-> "RuntimeError: cat", kv_cache |-> cache]}
        ELSE IF ~ViewOk(numel(both), -1, num_combined_kv_heads, head_size)
        THEN {[error |-> "RuntimeError: reshape", kv_cache |-> cache]}
        ELSE IF \/ Len(slot_mapping) # kv.shape[1]
                \/ kv.shape[2] # cache.shape[3]
                \/ kv.shape[3] # cache.shape[4]
        THEN {[error |-> "RuntimeError: index_copy_", kv_cache |-> cache]}
        ELSE {[error |-> "none",
               kv_cache |-> index_copy_flat(cache, slot_mapping, kv, w)] :
                 w \in IndexCopyWinners(slot_mapping)}

\* mutant: index_copy_ copies the rows it has an index for before it finds
\* that the index and the source differ in length
write_to_kv_cache_copy_then_check(key, value, cache, slot_mapping) ==
    LET num_combined_kv_heads == cache.shape[3]
        head_size ==
            cdiv(cache.shape[4], TPU_HEAD_SIZE_ALIGNMENT)
                * TPU_HEAD_SIZE_ALIGNMENT
        both == cat_last(key, value)
        kv == reshape3(both, -1, num_combined_kv_heads, head_size)
    IN  IF ~CatOk(key, value)
        THEN {[error |-> "RuntimeError: cat", kv_cache |-> cache]}
        ELSE IF ~ViewOk(numel(both), -1, num_combined_kv_heads, head_size)
        THEN {[error |-> "RuntimeError: reshape", kv_cache |-> cache]}
        ELSE IF \/ kv.shape[2] # cache.shape[3]
                \/ kv.shape[3] # cache.shape[4]
        THEN {[error |-> "RuntimeError: index_copy_", kv_cache |-> cache]}
        ELSE {[error |-> IF Len(slot_mapping) # kv.shape[1]
                         THEN "RuntimeError: index_copy_" ELSE "none",
               kv_cache |-> index_copy_flat(cache, slot_mapping, kv, w)] :
                 w \in IndexCopyWinners(slot_mapping)}

\* The possible outcomes of write_to_kv_cache(key, value, kv_cache,
\* slot_mapping), key and value being 3-D: the error raised ("none": it
\* returned) and the pool afterwards.
write_to_kv_cache(key, value, cache, slot_mapping) ==
    LET num_combined_kv_heads == cache.shape[3]
        head_size ==
            cdiv(cache.shape[4], TPU_HEAD_SIZE_ALIGNMENT)
                * TPU_HEAD_SIZE_ALIGNMENT
        kv == combined_kv(key, value, cache)
    IN  IF ~CatOk(key, value)
        THEN {[error |-> "RuntimeError: cat", kv_cache |-> cache]}
        ELSE IF ~ViewOk(numel(key) + numel(value), -1, num_combined_kv_heads,
                        head_size)
        THEN {[error |-> "RuntimeError: reshape", kv_cache |-> cache]}
        ELSE IF \/ Len(slot_mapping) # kv.shape[1]
                \/ kv.shape[2] # cache.shape[3]
                \/ kv.shape[3] # cache.shape[4]
        THEN {[error |-> "RuntimeError: index_copy_", kv_cache |-> cache]}
        ELSE {[error |-> "none",
               kv_cache |-> index_copy_flat(cache, slot_mapping, kv, w)] :
                 w \in IndexCopyWinners(slot_mapping)}

----------------------------------------------------------------------------
\* PallasAttentionBackendImpl.__init__

\* mutant: the TPU generation is not checked
PallasAttentionBackendImpl_init_any_tpu(a, tpu_version) ==
    LET warns == IF a.use_irope THEN {"irope is not supported"} ELSE {}
        self == [num_heads |-> a.num_heads,
                 head_size |-> a.head_size,
                 scale |-> a.scale,
                 num_kv_heads |-> a.num_kv_heads,
                 sliding_window |-> a.sliding_window,
                 logits_soft_cap |-> a.logits_soft_cap,
                 kv_sharing_target_layer_name |->
                     a.kv_sharing_target_layer_name,
                 num_queries_per_kv |-> a.num_heads \div a.num_kv_heads]
        error ==
            IF a.blocksparse_params # None
            THEN "ValueError: block-sparse attention"
            ELSE IF a.alibi_slopes # None
            THEN "NotImplementedError: alibi slopes"
            ELSE IF a.kv_cache_dtype # "auto"
            THEN "NotImplementedError: kv cache dtype"
            ELSE IF a.attn_type # "decoder"
            THEN "NotImplementedError: attention type"
            ELSE "none"
    IN  [error |-> error,
         self |-> IF error = "none" THEN Some(self) ELSE None,
         warns |-> warns]

\* The outcome of __init__(a), a the record of its arguments, on a TPU of
\* generation tpu_version: the error raised ("none": an instance exists),
\* the instance's fields, and the warnings logged on the way.
PallasAttentionBackendImpl_init(a, tpu_version) ==
    LET warns == IF a.use_irope THEN {"irope is not supported"} ELSE {}
        self == [num_heads |-> a.num_heads,
                 head_size |-> a.head_size,
                 scale |-> a.scale,
                 num_kv_heads |-> a.num_kv_heads,
                 sliding_window |-> a.sliding_window,
                 logits_soft_cap |-> a.logits_soft_cap,
                 kv_sharing_target_layer_name |->
                     a.kv_sharing_target_layer_name,
                 num_queries_per_kv |-> a.num_heads \div a.num_kv_heads]
        error ==
            IF a.blocksparse_params # None
            THEN "ValueError: block-sparse attention"
            ELSE IF a.alibi_slopes # None
            THEN "NotImplementedError: alibi slopes"
            ELSE IF a.kv_cache_dtype # "auto"
            THEN "NotImplementedError: kv cache dtype"
            ELSE IF a.attn_type # "decoder"
            THEN "NotImplementedError: attention type"
            ELSE IF tpu_version < MIN_TPU_VERSION
            THEN "NotImplementedError: TPU version"
            ELSE "none"
    IN  [error |-> error,
         self |-> IF error = "none" THEN Some(self) ELSE None,
         warns |-> warns]

----------------------------------------------------------------------------
\* PallasAttentionBackendImpl.forward

\* torch.ops.xla.ragged_paged_attention: the opaque kernel.  It either
\* rejects its arguments (raises) or returns an output shaped like query.
ragged_paged_attention(args, raises) ==
    IF raises
    THEN [error |-> "ValueError: ragged_paged_attention", output |-> None]
    ELSE [error |-> "none",
          output |-> Some([shape |-> args.query.shape, src |-> "attention"])]

Outcome(error, cache, trace, kernel_calls, ret) ==
    [error |-> error, kv_cache |-> cache, trace |-> trace,
     kernel_calls |-> kernel_calls, ret |-> ret]

\* mutant: no layer writes
should_write_kv_never(self, cache) == FALSE

\* mutant: a layer that shares another layer's cache writes as well
should_write_kv_ignoring_sharing(self, cache) == numel(cache) > 0

\* line 212: whether this call writes the step's keys and values
should_write_kv(self, cache) ==
    self.kv_sharing_target_layer_name = None /\ numel(cache) > 0

\* mutant: no sliding window reaches the kernel
kernel_sliding_window_dropped(self) == None

\* line 233: the sliding_window argument handed to the kernel
kernel_sliding_window(self) == self.sliding_window

\* mutant: the empty pool of the profiling run is not special-cased
forward_prepare_without_profiling_case(self, layer, query, key, value, cache, output, output_scale) ==
    LET num_tokens == query.shape[1]
        padded_head_size ==
            cdiv(self.head_size, TPU_HEAD_SIZE_ALIGNMENT)
                * TPU_HEAD_SIZE_ALIGNMENT
        needs_pad == self.head_size % TPU_HEAD_SIZE_ALIGNMENT # 0
        Padded(t) ==
            IF needs_pad THEN pad_last(t, padded_head_size - self.head_size)
            ELSE t
        Stop(error, ret) ==
            [error |-> error, ret |-> ret, query |-> None, key |-> None,
             value |-> None]
    IN  IF output_scale # None
        THEN Stop("NotImplementedError: fused output quantization", None)
        ELSE IF ~(layer.k_scale_float = 1 /\ layer.v_scale_float = 1)
        THEN Stop("AssertionError", None)
        ELSE IF ~ViewOk(numel(query), num_tokens, self.num_heads,
                        self.head_size)
        THEN Stop("RuntimeError: query.view", None)
        ELSE IF ~ViewOk(numel(key), -1, self.num_kv_heads, self.head_size)
        THEN Stop("RuntimeError: key.view", None)
        ELSE IF ~ViewOk(numel(value), -1, self.num_kv_heads, self.head_size)
        THEN Stop("RuntimeError: value.view", None)
        ELSE [error |-> "none", ret |-> None,
              query |-> Some(Padded(view3(query, num_tokens, self.num_heads,
                                          self.head_size))),
              key |-> Some(Padded(view3(key, -1, self.num_kv_heads,
                                        self.head_size))),
              value |-> Some(Padded(view3(value, -1, self.num_kv_heads,
                                          self.head_size)))]

\* lines 185-210: the checks, the degenerate case, the views and the padding.
\* error: what was raised; ret: the early return of lines 191-194.
forward_prepare(self, layer, query, key, value, cache, output, output_scale) ==
    LET num_tokens == query.shape[1]
        padded_head_size ==
            cdiv(self.head_size, TPU_HEAD_SIZE_ALIGNMENT)
                * TPU_HEAD_SIZE_ALIGNMENT
        needs_pad == self.head_size % TPU_HEAD_SIZE_ALIGNMENT # 0
        Padded(t) ==
            IF needs_pad THEN pad_last(t, padded_head_size - self.head_size)
            ELSE t
        Stop(error, ret) ==
            [error |-> error, ret |-> ret, query |-> None, key |-> None,
             value |-> None]
    IN  IF output_scale # None
        THEN Stop("NotImplementedError: fused output quantization", None)
        ELSE IF numel(cache) = 0
        THEN Stop("none",
                  IF output = None
                  THEN Some([shape |-> query.shape, src |-> "ones"])
                  ELSE output)
        ELSE IF ~(layer.k_scale_float = 1 /\ layer.v_scale_float = 1)
        THEN Stop("AssertionError", None)
        ELSE IF ~ViewOk(numel(query), num_tokens, self.num_heads,
                        self.head_size)
        THEN Stop("RuntimeError: query.view", None)
        ELSE IF ~ViewOk(numel(key), -1, self.num_kv_heads, self.head_size)
        THEN Stop("RuntimeError: key.view", None)
        ELSE IF ~ViewOk(numel(value), -1, self.num_kv_heads, self.head_size)
        THEN Stop("RuntimeError: value.view", None)
        ELSE [error |-> "none", ret |-> None,
              query |-> Some(Padded(view3(query, num_tokens, self.num_heads,
                                          self.head_size))),
              key |-> Some(Padded(view3(key, -1, self.num_kv_heads,
                                        self.head_size))),
              value |-> Some(Padded(view3(value, -1, self.num_kv_heads,
                                          self.head_size)))]

\* mutant: the kernel's output is not sliced back to head_size
forward_attend_without_slice(self, q, num_tokens, hidden_size, cache, md, raises, trace) ==
    LET kernel_attrs ==
            {"context_lens", "block_tables", "query_start_loc", "num_seqs"}
        args == [query |-> q, kv_cache |-> cache,
                 context_lens |-> md.context_lens,
                 block_tables |-> md.block_tables,
                 query_start_loc |-> md.query_start_loc,
                 num_seqs |-> md.num_seqs,
                 num_kv_pages_per_block |-> None,
                 num_queries_per_block |-> None,
                 vmem_limit_bytes |-> None,
                 use_kernel |-> TRUE,
                 sm_scale |-> self.scale,
                 sliding_window |-> kernel_sliding_window(self),
                 soft_cap |-> self.logits_soft_cap]
        k == ragged_paged_attention(args, raises)
        out == k.output[1]
        called == Append(trace, "ragged_paged_attention")
    IN  IF ~(kernel_attrs \subseteq md.attrs)
        THEN Outcome("AttributeError: attn_metadata", cache, trace, <<>>, None)
        ELSE IF k.error # "none"
        THEN Outcome(k.error, cache, called, <<args>>, None)
        ELSE IF numel(out) # num_tokens * hidden_size
        THEN Outcome("RuntimeError: output.reshape", cache, called, <<args>>,
                     None)
        ELSE Outcome("none", cache, called, <<args>>,
                     Some([shape |-> <<num_tokens, hidden_size>>,
                           src |-> out.src]))

\* mutant: one kernel call per sequence of the batch
forward_attend_per_sequence(self, q, num_tokens, hidden_size, cache, md, raises, trace) ==
    LET kernel_attrs ==
            {"context_lens", "block_tables", "query_start_loc", "num_seqs"}
        args(i) == [query |-> q, kv_cache |-> cache,
                    context_lens |-> <<md.context_lens[i]>>,
                    block_tables |-> <<md.block_tables[i]>>,
                    query_start_loc |-> md.query_start_loc,
                    num_seqs |-> 1,
                    num_kv_pages_per_block |-> None,
                    num_queries_per_block |-> None,
                    vmem_limit_bytes |-> None,
                    use_kernel |-> TRUE,
                    sm_scale |-> self.scale,
                    sliding_window |-> kernel_sliding_window(self),
                    soft_cap |-> self.logits_soft_cap]
        k == ragged_paged_attention(args(1), raises)
        out == k.output[1]
        sliced ==
            IF self.head_size % TPU_HEAD_SIZE_ALIGNMENT # 0
            THEN [shape |-> <<out.shape[1], out.shape[2],
                              IF self.head_size < out.shape[3]
                              THEN self.head_size ELSE out.shape[3]>>,
                  src |-> out.src]
            ELSE out
        calls == [i \in 1..md.num_seqs |-> args(i)]
        called == trace \o [i \in 1..md.num_seqs |-> "ragged_paged_attention"]
    IN  IF ~(kernel_attrs \subseteq md.attrs)
        THEN Outcome("AttributeError: attn_metadata", cache, trace, <<>>, None)
        ELSE IF k.error # "none"
        THEN Outcome(k.error, cache, called, calls, None)
        ELSE IF numel(sliced) # num_tokens * hidden_size
        THEN Outcome("RuntimeError: output.reshape", cache, called, calls,
                     None)
        ELSE Outcome("none", cache, called, calls,
                     Some([shape |-> <<num_tokens, hidden_size>>,
                           src |-> sliced.src]))

\* lines 218-240 on the pool `cache`: the kernel call, the slice and the
\* reshape of its output.  trace: the calls made before.
forward_attend(self, q, num_tokens, hidden_size, cache, md, raises, trace) ==
    LET kernel_attrs ==
            {"context_lens", "block_tables", "query_start_loc", "num_seqs"}
        args == [query |-> q, kv_cache |-> cache,
                 context_lens |-> md.context_lens,
                 block_tables |-> md.block_tables,
                 query_start_loc |-> md.query_start_loc,
                 num_seqs |-> md.num_seqs,
                 num_kv_pages_per_block |-> None,
                 num_queries_per_block |-> None,
                 vmem_limit_bytes |-> None,
                 use_kernel |-> TRUE,
                 sm_scale |-> self.scale,
                 sliding_window |-> kernel_sliding_window(self),
                 soft_cap |-> self.logits_soft_cap]
        k == ragged_paged_attention(args, raises)
        out == k.output[1]
        sliced ==
            IF self.head_size % TPU_HEAD_SIZE_ALIGNMENT # 0
            THEN [shape |-> <<out.shape[1], out.shape[2],
                              IF self.head_size < out.shape[3]
                              THEN self.head_size ELSE out.shape[3]>>,
                  src |-> out.src]
            ELSE out
        called == Append(trace, "ragged_paged_attention")
    IN  IF ~(kernel_attrs \subseteq md.attrs)
        THEN Outcome("AttributeError: attn_metadata", cache, trace, <<>>, None)
        ELSE IF k.error # "none"
        THEN Outcome(k.error, cache, called, <<args>>, None)
        ELSE IF numel(sliced) # num_tokens * hidden_size
        THEN Outcome("RuntimeError: output.reshape", cache, called, <<args>>,
                     None)
        ELSE Outcome("none", cache, called, <<args>>,
                     Some([shape |-> <<num_tokens, hidden_size>>,
                           src |-> sliced.src]))

\* mutant: the kernel is called on the pool as it was, and the write follows
forward_attend_then_write(self, p, query, cache, md, raises) ==
    LET num_tokens == query.shape[1]
        hidden_size == query.shape[2]
        a == forward_attend(self, p.query[1], num_tokens, hidden_size, cache,
                            md, raises, <<>>)
    IN  IF should_write_kv(self, cache) /\ a.error = "none"
        THEN IF "slot_mapping" \notin md.attrs
             THEN {Outcome("AttributeError: attn_metadata", cache, a.trace,
                           a.kernel_calls, None)}
             ELSE {Outcome(w.error, w.kv_cache,
                           Append(a.trace, "write_to_kv_cache"),
                           a.kernel_calls,
                           IF w.error = "none" THEN a.ret ELSE None) :
                     w \in write_to_kv_cache(p.key[1], p.value[1], cache,
                                             md.slot_mapping)}
        ELSE {a}

\* lines 212-240: the conditional cache write, then the kernel call
forward_write_then_attend(self, p, query, cache, md, raises) ==
    LET num_tokens == query.shape[1]
        hidden_size == query.shape[2]
    IN  IF should_write_kv(self, cache)
        THEN IF "slot_mapping" \notin md.attrs
             THEN {Outcome("AttributeError: attn_metadata", cache, <<>>, <<>>,
                           None)}
             ELSE {IF w.error # "none"
                   THEN Outcome(w.error, w.kv_cache, <<"write_to_kv_cache">>,
                                <<>>, None)
                   ELSE forward_attend(self, p.query[1], num_tokens,
                                       hidden_size, w.kv_cache, md, raises,
                                       <<"write_to_kv_cache">>) :
                     w \in write_to_kv_cache(p.key[1], p.value[1], cache,
                                             md.slot_mapping)}
        ELSE {forward_attend(self, p.query[1], num_tokens, hidden_size, cache,
                             md, raises, <<>>)}

\* The possible outcomes of forward(layer, query, key, value, kv_cache,
\* attn_metadata, output, output_scale).  raises: whether the kernel
\* rejects its arguments.
forward(self, layer, query, key, value, cache, md, output, output_scale, raises) ==
    LET p == forward_prepare(self, layer, query, key, value, cache, output,
                             output_scale)
    IN  IF p.error # "none" THEN {Outcome(p.error, cache, <<>>, <<>>, None)}
        ELSE IF p.ret # None THEN {Outcome("none", cache, <<>>, <<>>, p.ret)}
        ELSE forward_write_then_attend(self, p, query, cache, md, raises)

----------------------------------------------------------------------------
\* Capability queries made by the engine at startup (SpecGeometry)

\* Bounds of the queried values
MaxHeadSize == 260
MaxNumBlocks == 5
MaxLenExp == 14

MaxNumSeqs == (SMEM_BYTES \div 2) \div 4

\* values around the powers of two, where the results change
NearPowers(maxExp, top) ==
    {n \in {2 ^ k + d : k \in 0..maxExp, d \in {-1, 0, 1}}
            \cup {3 * 2 ^ k : k \in 0..maxExp} : n >= 1 /\ n <= top}

ModelLens == NearPowers(MaxLenExp, 2 ^ (MaxLenExp + 2))
NumSeqs == NearPowers(bit_length(MaxNumSeqs), MaxNumSeqs) \cup {1000}

\* the largest index table whose size in bytes is still a TLC integer
MaxTableBytes == 2 ^ 30

NoQuery == [op |-> "none", pending |-> <<>>, done |-> <<>>]

GeomQueries ==
    {[op |-> "get_kv_cache_shape", pending |-> <<<<nb, 16, kvh, hs>>>>,
      done |-> <<>>] :
        nb \in 0..MaxNumBlocks, kvh \in {1, 2}, hs \in 1..MaxHeadSize}
    \cup
    {[op |-> "get_min_page_size", pending |-> <<<<q[1], q[2]>>>>,
      done |-> <<>>] :
        q \in {x \in ModelLens \X NumSeqs : x[1] <= MaxTableBytes \div (4 * x[2])}}
    \cup
    {[op |-> "get_page_size", pending |-> << <<a>>, <<b>> >>,
      done |-> <<>>] : a \in ModelLens, b \in ModelLens}

Answered(args, ret) ==
    [op |-> geom.op, pending |-> Tail(geom.pending),
     done |-> Append(geom.done, [args |-> args, ret |-> ret])]

GetKVCacheShape ==
    /\ geom.op = "get_kv_cache_shape" /\ geom.pending # <<>>
    /\ LET a == Head(geom.pending)
       IN  /\ geom' = Answered(a, get_kv_cache_shape(a[1], a[2], a[3], a[4]))
           /\ warnings' = IF get_kv_cache_shape_warns(a[4])
                            THEN warnings \cup {"head size is padded"}
                            ELSE warnings
    /\ UNCHANGED <<impl, init_call, kv_cache, call, ncalls, last_written>>

GetMinPageSize ==
    /\ geom.op = "get_min_page_size" /\ geom.pending # <<>>
    /\ LET a == Head(geom.pending)
       IN  geom' = Answered(a, get_min_page_size(a[1], a[2]))
    /\ UNCHANGED <<impl, init_call, warnings, kv_cache, call, ncalls,
                   last_written>>

GetPageSize ==
    /\ geom.op = "get_page_size" /\ geom.pending # <<>>
    /\ LET a == Head(geom.pending)
       IN  geom' = Answered(a, get_page_size(a[1]))
    /\ UNCHANGED <<impl, init_call, warnings, kv_cache, call, ncalls,
                   last_written>>

NoInitCall == [made |-> FALSE]
NoCall == [op |-> "none"]
EmptyTensor == [shape |-> <<0>>, data |-> <<>>]

GeomInit ==
    /\ geom \in GeomQueries
    /\ impl = None
    /\ init_call = NoInitCall
    /\ warnings = {}
    /\ kv_cache = EmptyTensor
    /\ call = NoCall
    /\ ncalls = 0
    /\ last_written = <<>>

GeomNext == GetKVCacheShape \/ GetMinPageSize \/ GetPageSize

SpecGeometry == GeomInit /\ [][GeomNext]_vars

----------------------------------------------------------------------------
\* One attention layer: construction, the allocation of its page pool, and
\* forward calls (Spec)

\* Bounds
MaxTokens == 2
MaxCalls == 2

QueryHeadCounts == {2}
KVHeadCounts == {1, 2}
HeadSizes == {64, 128}
TpuVersions == {MIN_TPU_VERSION - 1, MIN_TPU_VERSION}

\* the (num_blocks, block_size) the engine asks a pool for; the pools it
\* gets have at most MaxPages pages
MaxPages == 2
CacheRequests == {<<2, 1>>, <<4, 1>>}

InitArgs ==
    [num_heads : QueryHeadCounts,
     head_size : HeadSizes,
     scale : {1},
     num_kv_heads : KVHeadCounts,
     alibi_slopes : {None, Some("slopes")},
     sliding_window : {None, Some(4)},
     kv_cache_dtype : {"auto", "fp8"},
     blocksparse_params : {None, Some("params")},
     logits_soft_cap : {None},
     attn_type : {"decoder", "encoder"},
     kv_sharing_target_layer_name : {None, Some("layers.0.attn")},
     use_irope : BOOLEAN]

\* impl = PallasAttentionBackendImpl(...): at most once per layer
Construct ==
    /\ ~init_call.made
    /\ \E a \in InitArgs, v \in TpuVersions :
         LET r == PallasAttentionBackendImpl_init(a, v)
         IN  /\ init_call' = [made |-> TRUE, args |-> a, tpu_version |-> v,
                              error |-> r.error]
             /\ impl' = r.self
             /\ warnings' = warnings \cup r.warns
    /\ UNCHANGED <<geom, kv_cache, call, ncalls, last_written>>

\* The element at column c (0-based) of the query (kind 0), key (kind 1) or
\* value (kind 2) row of the token with payload `id`: never 0, the padding
\* value and the content of a fresh pool.
Elem(kind, id, c) == (id * 3 + kind) * 1000 + c + 1

\* a [num_tokens, cols] tensor whose row t carries payload ids[t]
InputTensor(kind, ids, cols) ==
    [shape |-> <<Len(ids), cols>>,
     data |-> [t \in 1..Len(ids) |-> [c \in 1..cols |->
                 Elem(kind, ids[t], c - 1)]]]

zeros(shape) ==
    [shape |-> shape,
     data |-> IF Product(shape) = 0 THEN <<>>
              ELSE [p \in 1..shape[1] |-> [o \in 1..shape[2] |->
                     [c \in 1..shape[3] |-> [e \in 1..shape[4] |-> 0]]]]]

NumSlots(cache) ==
    IF numel(cache) = 0 THEN 0 ELSE cache.shape[1] * cache.shape[2]

\* the payload of the token a source layer wrote before a sharing layer runs
SourceLayerPayload == MaxTokens + 1

\* The engine allocates the layer's page pool with the shape the backend
\* computes; the pool of a layer that shares the cache of an earlier layer
\* may already hold that layer's write (pre).
AllocateKVCache ==
    /\ impl # None
    /\ kv_cache = EmptyTensor
    /\ \E req \in CacheRequests, pre \in BOOLEAN :
         LET self == impl[1]
             fresh == zeros(get_kv_cache_shape(req[1], req[2],
                                               self.num_kv_heads,
                                               self.head_size))
             kv3(kind) ==
                 pad_last(view3(InputTensor(kind, <<SourceLayerPayload>>,
                                            self.num_kv_heads * self.head_size),
                                -1, self.num_kv_heads, self.head_size),
                          fresh.shape[4] - self.head_size)
         IN  /\ numel(fresh) > 0
             /\ fresh.shape[1] <= MaxPages
             /\ pre => self.kv_sharing_target_layer_name # None
             /\ kv_cache' \in
                   IF pre
                   THEN {w.kv_cache :
                           w \in write_to_kv_cache(kv3(1), kv3(2), fresh, <<0>>)}
                   ELSE {fresh}
             /\ warnings' = IF get_kv_cache_shape_warns(self.head_size)
                            THEN warnings \cup {"head size is padded"}
                            ELSE warnings
    /\ UNCHANGED <<geom, impl, init_call, call, ncalls, last_written>>

\* the payloads of a batch of n tokens: token t carries payload t
BatchIds(n) == [t \in 1..n |-> t]

\* The slot mappings the scheduler may hand over for n tokens and a pool of
\* `slots` slots: in range and step-exclusive (no slot is given to two
\* tokens of one step).  The profiling run on an empty pool has no slot to
\* give and passes a dummy mapping.
SlotMappings(n, slots) ==
    IF slots = 0 THEN {[t \in 1..n |-> 0]}
    ELSE {m \in [1..n -> 0..(slots - 1)] :
            \A i, j \in 1..n : i # j => m[i] # m[j]}

\* What a forward call may have wrong, at most one thing per call, and
\* "output_buffer": the caller passes an output buffer.
Variations ==
    {"none", "output_buffer", "output_scale", "k_scale", "key_shape",
     "no_metadata", "no_context_lens", "short_slot_mapping", "kernel_raises"}

Metadata(slot_mapping, n, variation) ==
    [attrs |-> IF variation = "no_metadata" THEN {}
               ELSE IF variation = "no_context_lens"
               THEN {"slot_mapping", "block_tables", "query_start_loc",
                     "num_seqs"}
               ELSE {"slot_mapping", "block_tables", "query_start_loc",
                     "num_seqs", "context_lens"},
     slot_mapping |-> IF variation = "short_slot_mapping"
                      THEN Tail(slot_mapping) ELSE slot_mapping,
     context_lens |-> <<0>>,
     block_tables |-> <<<<0>>>>,
     query_start_loc |-> <<0, n>>,
     num_seqs |-> 1]

\* impl.forward(layer, query, key, value, kv_cache, attn_metadata, output,
\* output_scale) on a batch of n tokens
Forward ==
    /\ impl # None
    /\ ncalls < MaxCalls
    /\ \E n \in 1..MaxTokens, variation \in Variations :
       \E sm \in SlotMappings(n, NumSlots(kv_cache)) :
         LET self == impl[1]
             ids == BatchIds(n)
             query == InputTensor(0, ids, self.num_heads * self.head_size)
             key == InputTensor(1, ids,
                                self.num_kv_heads * self.head_size
                                  + (IF variation = "key_shape" THEN 1 ELSE 0))
             value == InputTensor(2, ids, self.num_kv_heads * self.head_size)
             layer == [k_scale_float |->
                           IF variation = "k_scale" THEN 2 ELSE 1,
                       v_scale_float |-> 1]
             md == Metadata(sm, n, variation)
         IN  \E r \in forward(self, layer, query, key, value, kv_cache, md,
                               IF variation = "output_buffer"
                               THEN Some([shape |-> query.shape,
                                          src |-> "buffer"])
                               ELSE None,
                               IF variation = "output_scale"
                               THEN Some(1) ELSE None,
                               variation = "kernel_raises") :
               /\ kv_cache' = r.kv_cache
               /\ call' = [op |-> "forward",
                           query_shape |-> query.shape,
                           pool_numel |-> numel(kv_cache),
                           pool_changed |-> r.kv_cache # kv_cache,
                           output_scale_given |-> variation = "output_scale",
                           written |->
                               IF "write_to_kv_cache" \in
                                      {r.trace[i] : i \in DOMAIN r.trace}
                               THEN Some([ids |-> ids,
                                          slot_mapping |-> md.slot_mapping])
                               ELSE None,
                           error |-> r.error, trace |-> r.trace,
                           kernel_calls |-> r.kernel_calls, ret |-> r.ret]
    /\ ncalls' = ncalls + 1
    /\ UNCHANGED <<geom, impl, init_call, warnings, last_written>>

Init ==
    /\ geom = NoQuery
    /\ impl = None
    /\ init_call = NoInitCall
    /\ warnings = {}
    /\ kv_cache = EmptyTensor
    /\ call = NoCall
    /\ ncalls = 0
    /\ last_written = <<>>

Next == Construct \/ AllocateKVCache \/ Forward

Spec == Init /\ [][Next]_vars

----------------------------------------------------------------------------
\* Steps of two layers over one page pool of several slots per page: a layer
\* that writes its keys and values and a layer that shares the cache of an
\* earlier layer (SpecSteps)

\* Bound: forward calls per behaviour
MaxSteps == 2

\* (num_blocks, block_size) of the pools
PoolGeometries == {<<4, 2>>, <<2, 4>>}

StepLayerArgs(sharing) ==
    [num_heads |-> 1, head_size |-> TPU_HEAD_SIZE_ALIGNMENT, scale |-> 1,
     num_kv_heads |-> 1, alibi_slopes |-> None, sliding_window |-> None,
     kv_cache_dtype |-> "auto", blocksparse_params |-> None,
     logits_soft_cap |-> None, attn_type |-> "decoder",
     kv_sharing_target_layer_name |->
         IF sharing THEN Some("layers.0.attn") ELSE None,
     use_irope |-> FALSE]

StepLayer(sharing) ==
    PallasAttentionBackendImpl_init(StepLayerArgs(sharing),
                                    MIN_TPU_VERSION).self[1]

\* A batch: the payloads of its tokens, their slots, and the descriptor of
\* its sequences.
Batch(ids, slot_mapping, context_lens, block_tables, query_start_loc) ==
    [ids |-> ids, slot_mapping |-> slot_mapping,
     context_lens |-> context_lens, block_tables |-> block_tables,
     query_start_loc |-> query_start_loc, num_seqs |-> Len(context_lens)]

\* Sequence A (no context, 2 new tokens at slots 0 and 1, block table row
\* [0]) and sequence B (2 context tokens, 1 new token at slot 2, block table
\* row [1])
ScenarioBatch ==
    Batch(<<1, 2, 3>>, <<0, 1, 2>>, <<0, 2>>, << <<0>>, <<1>> >>, <<0, 2, 3>>)

\* the payloads of the context tokens of sequence B and their slots
ContextIds == <<8, 9>>
ContextSlots == <<2, 3>>

Batches ==
    {ScenarioBatch,
     Batch(<<4>>, <<3>>, <<1>>, << <<1>> >>, <<0, 1>>),
     Batch(<<4>>, <<5>>, <<0>>, << <<2>> >>, <<0, 1>>),
     Batch(<<5, 6>>, <<7, 6>>, <<0>>, << <<3>> >>, <<0, 2>>),
     Batch(<<5, 6, 7>>, <<1, 4, 6>>, <<1, 0, 0>>,
           << <<0>>, <<2>>, <<3>> >>, <<0, 1, 2, 3>>)}

StepMetadata(b) ==
    [attrs |-> {"slot_mapping", "block_tables", "query_start_loc",
                "num_seqs", "context_lens"},
     slot_mapping |-> b.slot_mapping,
     context_lens |-> b.context_lens,
     block_tables |-> b.block_tables,
     query_start_loc |-> b.query_start_loc,
     num_seqs |-> b.num_seqs]

StepInput(kind, ids, self, heads) ==
    InputTensor(kind, ids, heads * self.head_size)

\* the pool of geometry g, fresh or holding the context tokens
InitialPools(g) ==
    LET self == StepLayer(FALSE)
        fresh == zeros(get_kv_cache_shape(g[1], g[2], self.num_kv_heads,
                                          self.head_size))
        kv3(kind) == view3(StepInput(kind, ContextIds, self,
                                     self.num_kv_heads),
                           -1, self.num_kv_heads, self.head_size)
    IN  {[kv_cache |-> fresh,
          last_written |-> [s \in 0..(NumSlots(fresh) - 1) |-> 0]]}
        \cup
        {[kv_cache |-> w.kv_cache,
          last_written |->
              [s \in 0..(NumSlots(fresh) - 1) |->
                 IF \E i \in DOMAIN ContextSlots : ContextSlots[i] = s
                 THEN ContextIds[CHOOSE i \in DOMAIN ContextSlots :
                                    ContextSlots[i] = s]
                 ELSE 0]] :
           w \in write_to_kv_cache(kv3(1), kv3(2), fresh, ContextSlots)}

\* One forward call on batch b.  mode "write": the layer that writes, on
\* the pool; "sharing": the layer that shares, on the pool; "profiling":
\* the layer that writes, handed the empty tensor of the profiling run.
Step ==
    /\ ncalls < MaxSteps
    /\ \E b \in Batches, mode \in {"write", "sharing", "profiling"} :
         LET self == StepLayer(mode = "sharing")
             cache == IF mode = "profiling" THEN EmptyTensor ELSE kv_cache
             query == StepInput(0, b.ids, self, self.num_heads)
             key == StepInput(1, b.ids, self, self.num_kv_heads)
             value == StepInput(2, b.ids, self, self.num_kv_heads)
             layer == [k_scale_float |-> 1, v_scale_float |-> 1]
             md == StepMetadata(b)
         IN  \E r \in forward(self, layer, query, key, value, cache, md,
                               None, None, FALSE) :
               /\ kv_cache' = IF mode = "profiling" THEN kv_cache
                               ELSE r.kv_cache
               /\ call' = [op |-> "forward", mode |-> mode, batch |-> b,
                           query_shape |-> query.shape,
                           pool_numel |-> numel(cache),
                           pool_before |-> kv_cache,
                           error |-> r.error, trace |-> r.trace,
                           kernel_calls |-> r.kernel_calls, ret |-> r.ret]
               /\ last_written' =
                     IF mode = "write"
                     THEN [s \in DOMAIN last_written |->
                             IF \E t \in DOMAIN b.ids : b.slot_mapping[t] = s
                             THEN b.ids[CHOOSE t \in DOMAIN b.ids :
                                          b.slot_mapping[t] = s]
                             ELSE last_written[s]]
                     ELSE last_written
    /\ ncalls' = ncalls + 1
    /\ UNCHANGED <<geom, impl, init_call, warnings>>

\* the block mappings a swap may be asked for
SwapMappings == {<<>>, << <<0, 1>> >>, << <<0, 0>>, <<1, 1>> >>}

\* PallasAttentionBackend.swap_blocks(kv_cache, dst_kv_cache, src_to_dst),
\* the destination being the pool itself or a fresh pool of its shape
SwapBlocks ==
    /\ call.op # "swap_blocks"
    /\ \E m \in SwapMappings, dst \in {kv_cache, zeros(kv_cache.shape)} :
         LET r == swap_blocks(kv_cache, dst, m)
         IN  /\ kv_cache' = r.src_kv_cache
             /\ call' = [op |-> "swap_blocks", src_to_dst |-> m,
                         error |-> r.error,
                         src_before |-> kv_cache,
                         dst_before |-> dst,
                         dst_after |-> r.dst_kv_cache]
    /\ UNCHANGED <<geom, impl, init_call, warnings, ncalls, last_written>>

StepsInit ==
    /\ geom = NoQuery
    /\ impl = Some(StepLayer(FALSE))
    /\ init_call = [made |-> TRUE, args |-> StepLayerArgs(FALSE),
                    tpu_version |-> MIN_TPU_VERSION, error |-> "none"]
    /\ warnings = {}
    /\ \E g \in PoolGeometries : \E p \in InitialPools(g) :
          /\ kv_cache = p.kv_cache
          /\ last_written = p.last_written
    /\ call = NoCall
    /\ ncalls = 0

StepsNext == Step \/ SwapBlocks

SpecSteps == StepsInit /\ [][StepsNext]_vars

----------------------------------------------------------------------------
\* One layer of any head size: its pool as get_kv_cache_shape sizes it, and
\* one forward call (SpecPadding)

PaddingLayerArgs(head_size, num_kv_heads) ==
    [num_heads |-> 2, head_size |-> head_size, scale |-> 1,
     num_kv_heads |-> num_kv_heads, alibi_slopes |-> None,
     sliding_window |-> None, kv_cache_dtype |-> "auto",
     blocksparse_params |-> None, logits_soft_cap |-> None,
     attn_type |-> "decoder", kv_sharing_target_layer_name |-> None,
     use_irope |-> FALSE]

\* the fewest blocks to ask for so that the pool has a slot per token
BlocksFor(head_size, tokens) ==
    cdiv(tokens * cdiv(head_size, TPU_HEAD_SIZE_ALIGNMENT)
           * TPU_HEAD_SIZE_ALIGNMENT, head_size)

\* the engine allocates the pool, block size 1, with the shape
\* get_kv_cache_shape returns for the layer's head size
AllocatePaddedPool ==
    /\ kv_cache = EmptyTensor
    /\ LET self == impl[1]
       IN  /\ kv_cache' = zeros(get_kv_cache_shape(
                                    BlocksFor(self.head_size, MaxTokens), 1,
                                    self.num_kv_heads, self.head_size))
           /\ warnings' = IF get_kv_cache_shape_warns(self.head_size)
                          THEN warnings \cup {"head size is padded"}
                          ELSE warnings
    /\ UNCHANGED <<geom, impl, init_call, call, ncalls, last_written>>

\* one forward call on n tokens, token t going to slot t - 1
PaddedForward ==
    /\ ncalls = 0
    /\ \E n \in 1..MaxTokens :
         LET self == impl[1]
             ids == BatchIds(n)
             query == InputTensor(0, ids, self.num_heads * self.head_size)
             key == InputTensor(1, ids, self.num_kv_heads * self.head_size)
             value == InputTensor(2, ids, self.num_kv_heads * self.head_size)
             layer == [k_scale_float |-> 1, v_scale_float |-> 1]
             md == Metadata([t \in 1..n |-> t - 1], n, "none")
             p == forward_prepare(self, layer, query, key, value, kv_cache,
                                  None, None)
         IN  \E r \in forward(self, layer, query, key, value, kv_cache, md,
                               None, None, FALSE) :
               /\ kv_cache' = r.kv_cache
               /\ call' = [op |-> "forward", ids |-> ids,
                           slot_mapping |-> md.slot_mapping,
                           query_shape |-> query.shape,
                           pool_numel |-> numel(kv_cache),
                           padded_key_shape |->
                               IF p.key = None THEN None
                               ELSE Some(p.key[1].shape),
                           padded_value_shape |->
                               IF p.value = None THEN None
                               ELSE Some(p.value[1].shape),
                           kv_shape |->
                               IF p.key = None THEN None
                               ELSE Some(combined_kv(p.key[1], p.value[1],
                                                     kv_cache).shape),
                           error |-> r.error, trace |-> r.trace,
                           kernel_calls |-> r.kernel_calls, ret |-> r.ret]
    /\ ncalls' = ncalls + 1
    /\ UNCHANGED <<geom, impl, init_call, warnings, last_written>>

PaddingInit ==
    /\ geom = NoQuery
    /\ \E head_size \in 1..MaxHeadSize, num_kv_heads \in KVHeadCounts :
          LET a == PaddingLayerArgs(head_size, num_kv_heads)
              r == PallasAttentionBackendImpl_init(a, MIN_TPU_VERSION)
          IN  /\ impl = r.self
              /\ init_call = [made |-> TRUE, args |-> a,
                              tpu_version |-> MIN_TPU_VERSION,
                              error |-> r.error]
    /\ warnings = {}
    /\ kv_cache = EmptyTensor
    /\ call = NoCall
    /\ ncalls = 0
    /\ last_written = <<>>

PaddingNext == AllocatePaddedPool \/ PaddedForward

SpecPadding == PaddingInit /\ [][PaddingNext]_vars

----------------------------------------------------------------------------
\* Claims about the geometry functions (SpecGeometry)

AnsweredCalls(op) ==
    IF geom.op = op THEN {geom.done[i] : i \in DOMAIN geom.done} ELSE {}

CeilQuot(a, b) == (a \div b) + (IF a % b = 0 THEN 0 ELSE 1)

PowersOfTwo == {2 ^ k : k \in 0..24}

ShapeWidthIsNextMultiple(c) ==
    LET hs == c.args[4]
        w == c.ret[4]
    IN  /\ w % TPU_HEAD_SIZE_ALIGNMENT = 0
        /\ w >= hs
        /\ \A m \in 1..(MaxHeadSize + TPU_HEAD_SIZE_ALIGNMENT) :
              (m % TPU_HEAD_SIZE_ALIGNMENT = 0 /\ m >= hs) => w <= m

ShapeWithinBudget(c) == c.ret[1] * c.ret[4] <= c.args[1] * c.args[4]

ShapeUsesWholeBudget(c) == c.ret[1] * c.ret[4] = c.args[1] * c.args[4]

\* C6 as amended.  For every head width and requested page count,
\* get_kv_cache_shape yields a physical width that is the smallest multiple
\* of 128 that is >= the head width, and physicalPageCount * physicalWidth <=
\* requestedPageCount * headWidth, with equality when the head width is
\* itself a multiple of 128.
C6_GeometryInvariant ==
    \A c \in AnsweredCalls("get_kv_cache_shape") :
        /\ ShapeWidthIsNextMultiple(c)
        /\ ShapeWithinBudget(c)
        /\ (c.args[4] % TPU_HEAD_SIZE_ALIGNMENT = 0 => ShapeUsesWholeBudget(c))
        /\ c.ret[2] = c.args[2]
        /\ c.ret[3] = 2 * c.args[3]

\* C6 as stated: ... with equality when the head width divides the alignment
\* boundary (128 is a multiple of the head width).
C6_AsStated ==
    \A c \in AnsweredCalls("get_kv_cache_shape") :
        /\ ShapeWidthIsNextMultiple(c)
        /\ ShapeWithinBudget(c)
        /\ (TPU_HEAD_SIZE_ALIGNMENT % c.args[4] = 0 => ShapeUsesWholeBudget(c))

\* a shape was computed for an aligned head width wider than one boundary and
\* a non-empty request
C6_Witness ==
    \E c \in AnsweredCalls("get_kv_cache_shape") :
        /\ c.args[4] = 2 * TPU_HEAD_SIZE_ALIGNMENT
        /\ c.args[1] > 0
        /\ c.ret[1] = c.args[1]

\* C7.  For maxModelLen >= 1 and 1 <= maxConcurrentSeqs <= 131072,
\* get_min_page_size returns ceil(maxModelLen / maxPagesPerSeq) rounded up to
\* the next power of two, where maxPagesPerSeq = (2^20 / 2) / (seqs * 4); the
\* result is the smallest power of two p for which a table of
\* seqs * ceil(maxModelLen / p) entries of 4 bytes fits in 524288 bytes.
C7_MinPageSize ==
    \A c \in AnsweredCalls("get_min_page_size") :
        LET len == c.args[1]
            seqs == c.args[2]
            maxPagesPerSeq == (2 ^ 20 \div 2) \div (seqs * 4)
            need == CeilQuot(len, maxPagesPerSeq)
            Fits(p) == seqs * CeilQuot(len, p) * 4 <= 524288
        IN  /\ c.ret \in PowersOfTwo
            /\ c.ret >= need
            /\ \A p \in PowersOfTwo : p >= need => c.ret <= p
            /\ Fits(c.ret)
            /\ \A p \in PowersOfTwo : p < c.ret => ~Fits(p)

\* a minimum page size above 1 was computed, for the largest number of
\* sequences, from a quotient that is already a power of two
C7_Witness ==
    \E c \in AnsweredCalls("get_min_page_size") :
        LET need == CeilQuot(c.args[1], (2 ^ 20 \div 2) \div (c.args[2] * 4))
        IN  /\ c.ret > 1
            /\ c.ret = need
            /\ c.args[2] = MaxNumSeqs

\* C8.  get_page_size is non-decreasing in maxModelLen and always returns a
\* value in [16, 256].
C8_PageSizeMonotone ==
    /\ \A c \in AnsweredCalls("get_page_size") : c.ret >= 16 /\ c.ret <= 256
    /\ \A c, d \in AnsweredCalls("get_page_size") :
          c.args[1] <= d.args[1] => c.ret <= d.ret

\* two model lengths were queried whose page sizes differ and lie strictly
\* inside the clamp
C8_Witness ==
    \E c, d \in AnsweredCalls("get_page_size") :
        /\ c.args[1] < d.args[1]
        /\ 16 < c.ret /\ c.ret < d.ret /\ d.ret < 256

----------------------------------------------------------------------------
\* Claims about construction and forward (Spec)

\* the element the pool holds at column j (1-based) of head h's key (kind 1)
\* or value (kind 2) of the token with payload id: the input element, or
\* the padding
PaddedElem(kind, id, h, j, head_size) ==
    IF j <= head_size THEN Elem(kind, id, (h - 1) * head_size + (j - 1))
    ELSE 0

\* the row of the pool `cache` at flat slot k is the padded key and value of
\* the token with payload id: key of head h (0-based) at position 2h, value
\* at 2h + 1
HoldsToken(cache, k, id, self) ==
    LET row == cache.data[(k \div cache.shape[2]) + 1][(k % cache.shape[2]) + 1]
    IN  /\ Len(row) = 2 * self.num_kv_heads
        /\ \A h \in 1..self.num_kv_heads :
              /\ Len(row[2 * h - 1]) = cache.shape[4]
              /\ Len(row[2 * h]) = cache.shape[4]
              /\ \A j \in 1..cache.shape[4] :
                    /\ row[2 * h - 1][j]
                         = PaddedElem(1, id, h, j, self.head_size)
                    /\ row[2 * h][j]
                         = PaddedElem(2, id, h, j, self.head_size)

HoldsWritten(cache) ==
    LET w == call.written[1]
    IN  /\ Len(w.slot_mapping) = Len(w.ids)
        /\ \A t \in DOMAIN w.ids :
              HoldsToken(cache, w.slot_mapping[t], w.ids[t], impl[1])

WriteErrors ==
    {"RuntimeError: cat", "RuntimeError: reshape", "RuntimeError: index_copy_"}

\* the last forward call called write_to_kv_cache, and it returned
WriteReturned ==
    /\ call.op = "forward"
    /\ call.written # None
    /\ call.error \notin WriteErrors

Sharing == impl # None /\ impl[1].kv_sharing_target_layer_name # None

\* C1.  Write/read round trip: after write_to_kv_cache has written a step's
\* tokens, for every token and its slot_mapping entry k the pool row at flat
\* slot k is exactly the padded key and value written (key of head h at
\* kv-head-slot 2h, value of head h at 2h + 1), no element changed.
C1_WriteReadRoundTrip == WriteReturned => HoldsWritten(kv_cache)

\* two tokens of padded head size were written by one call, two kv heads each
C1_Witness ==
    /\ WriteReturned
    /\ Len(call.written[1].ids) = 2
    /\ impl[1].head_size < kv_cache.shape[4]
    /\ impl[1].num_kv_heads = 2
    /\ call.pool_changed

\* C2.  Sharing skip: after every forward call of a layer whose
\* kv_sharing_target_layer_name is set, the page pool is identical at every
\* slot to the pool before the call.
C2_SharingSkip ==
    (call.op = "forward" /\ Sharing) =>
        /\ ~call.pool_changed
        /\ call.written = None

\* a sharing layer ran the kernel on two tokens over a pool that holds the
\* source layer's token
C2_Witness ==
    /\ call.op = "forward" /\ Sharing
    /\ call.error = "none"
    /\ call.query_shape[1] = 2
    /\ Len(call.kernel_calls) = 1
    /\ HoldsToken(kv_cache, 0, SourceLayerPayload, impl[1])

\* the errors forward raises in its own checks, before line 212
ChecksOfForward ==
    {"NotImplementedError: fused output quantization", "AssertionError",
     "RuntimeError: query.view", "RuntimeError: key.view",
     "RuntimeError: value.view"}

\* C3 as stated.  For every forward call that ends in an error, the page pool
\* after the failed call equals the page pool before it.
C3_AsStated ==
    (call.op = "forward" /\ call.error # "none") => ~call.pool_changed

\* C3 as amended.  A forward call that fails in one of forward's own checks
\* (output_scale, the scale assertion, the views of query, key and value),
\* on a missing slot_mapping or inside write_to_kv_cache leaves the pool as
\* it was; a call that fails later (reading the kernel's metadata, in the
\* kernel, reshaping its output) fails after write_to_kv_cache has returned,
\* and the pool then holds every token of the step: the write is whole or
\* absent, never partial.
C3_FailedCallWritesAllOrNothing ==
    (call.op = "forward" /\ call.error # "none") =>
        /\ call.ret = None
        /\ call.error \in ChecksOfForward => call.trace = <<>>
        /\ ~WriteReturned => ~call.pool_changed
        /\ WriteReturned =>
              /\ ~Sharing
              /\ call.trace[1] = "write_to_kv_cache"
              /\ HoldsWritten(kv_cache)

\* a call failed reading the kernel's metadata, after its write
C3_Witness ==
    /\ WriteReturned
    /\ call.error = "AttributeError: attn_metadata"
    /\ call.pool_changed
    /\ call.kernel_calls = <<>>

\* C4.  Ordering within a step: in every forward call of a non-sharing layer
\* with a non-empty pool that invokes the kernel, write_to_kv_cache has
\* returned before, the kernel is invoked once, and the pool the kernel is
\* given is the pool after the write, holding the step's tokens at the
\* batch's slot mapping.
C4_WriteBeforeKernel ==
    (/\ call.op = "forward" /\ ~Sharing /\ call.pool_numel > 0
     /\ (call.kernel_calls # <<>>
           \/ \E i \in DOMAIN call.trace :
                call.trace[i] = "ragged_paged_attention")) =>
        /\ call.trace = <<"write_to_kv_cache", "ragged_paged_attention">>
        /\ Len(call.kernel_calls) = 1
        /\ WriteReturned
        /\ HoldsWritten(call.kernel_calls[1].kv_cache)
        /\ call.kernel_calls[1].kv_cache = kv_cache

\* a non-sharing layer wrote two tokens and the kernel returned
C4_Witness ==
    /\ call.op = "forward" /\ ~Sharing /\ call.pool_numel > 0
    /\ call.error = "none"
    /\ Len(call.kernel_calls) = 1
    /\ call.query_shape[1] = 2
    /\ call.pool_changed

\* C5 as stated.  When the page pool has zero capacity (kv_cache.numel() ==
\* 0), forward returns a placeholder output of the same shape as query and
\* performs neither a cache write nor an attention-kernel invocation.
C5_AsStated ==
    (call.op = "forward" /\ call.pool_numel = 0) =>
        /\ call.trace = <<>>
        /\ call.kernel_calls = <<>>
        /\ call.written = None
        /\ ~call.pool_changed
        /\ call.error = "none"
        /\ call.ret # None
        /\ call.ret[1].shape = call.query_shape

\* C5 as amended.  A forward call on a pool of zero elements performs
\* neither a cache write nor a kernel invocation; when output_scale is not
\* supplied it returns a placeholder of the shape of query (the output
\* buffer if one is given, ones otherwise), whatever else the call carries;
\* when output_scale is supplied it raises NotImplementedError, by the check
\* that precedes the one of the pool, and returns nothing.
C5_CapacityProbe ==
    (call.op = "forward" /\ call.pool_numel = 0) =>
        /\ call.trace = <<>>
        /\ call.kernel_calls = <<>>
        /\ call.written = None
        /\ ~call.pool_changed
        /\ IF call.output_scale_given
           THEN /\ call.error
                     = "NotImplementedError: fused output quantization"
                /\ call.ret = None
           ELSE /\ call.error = "none"
                /\ call.ret # None
                /\ call.ret[1].shape = call.query_shape
                /\ call.ret[1].src \in {"ones", "buffer"}

\* a call of two tokens on an empty pool returned ones
C5_Witness ==
    /\ call.op = "forward" /\ call.pool_numel = 0
    /\ call.error = "none"
    /\ call.query_shape[1] = 2
    /\ call.ret # None /\ call.ret[1].src = "ones"

\* the configurations __init__ rejects, as the specification lists them
Unsupported(a, tpu_version) ==
    \/ a.alibi_slopes # None
    \/ a.blocksparse_params # None
    \/ a.kv_cache_dtype # "auto"
    \/ a.attn_type # "decoder"
    \/ tpu_version < 4

ConstructedWithIrope ==
    /\ init_call.made
    /\ init_call.args.use_irope
    /\ ~Unsupported(init_call.args, init_call.tpu_version)

\* C9 as stated.  When the implementation is constructed with use_irope and
\* a sliding_window width, construction succeeds with a warning and no
\* sliding-window width reaches the kernel in any forward call.
C9_AsStated ==
    (ConstructedWithIrope /\ init_call.args.sliding_window # None) =>
        /\ impl # None
        /\ "irope is not supported" \in warnings
        /\ call.op = "forward" =>
              \A i \in DOMAIN call.kernel_calls :
                  call.kernel_calls[i].sliding_window = None

\* C9 as amended.  When the implementation is constructed with use_irope,
\* construction succeeds with a warning, and every forward call hands the
\* kernel the sliding_window given at construction, unchanged: the width
\* if one was given, none (global attention) only if none was given.
C9_IropeKeepsSlidingWindow ==
    ConstructedWithIrope =>
        /\ impl # None
        /\ init_call.error = "none"
        /\ "irope is not supported" \in warnings
        /\ call.op = "forward" =>
              \A i \in DOMAIN call.kernel_calls :
                  call.kernel_calls[i].sliding_window
                      = init_call.args.sliding_window

\* a layer constructed with use_irope and a sliding window called the kernel
C9_Witness ==
    /\ ConstructedWithIrope
    /\ init_call.args.sliding_window # None
    /\ call.op = "forward"
    /\ Len(call.kernel_calls) = 1
    /\ call.kernel_calls[1].sliding_window = init_call.args.sliding_window

\* C10.  Supported-configuration gate: __init__ raises and leaves no
\* instance whenever alibi slopes or block-sparse parameters are given,
\* kv_cache_dtype is not "auto", attn_type is not the decoder, or the TPU
\* version is below 4, and succeeds otherwise; no forward call and no pool
\* exist under an unsupported configuration.
C10_ConfigurationGate ==
    /\ init_call.made =>
          IF Unsupported(init_call.args, init_call.tpu_version)
          THEN init_call.error # "none" /\ impl = None
          ELSE init_call.error = "none" /\ impl # None
    /\ ~init_call.made => impl = None
    /\ (call.op = "forward" \/ ncalls > 0 \/ kv_cache # EmptyTensor) =>
          /\ init_call.made
          /\ ~Unsupported(init_call.args, init_call.tpu_version)

\* a construction was rejected for the TPU version alone
C10_Witness ==
    /\ init_call.made
    /\ init_call.tpu_version < 4
    /\ init_call.args.alibi_slopes = None
    /\ init_call.args.blocksparse_params = None
    /\ init_call.args.kv_cache_dtype = "auto"
    /\ init_call.args.attn_type = "decoder"
    /\ init_call.error = "NotImplementedError: TPU version"
    /\ impl = None

----------------------------------------------------------------------------
\* Claims about steps over a pool of several slots per page (SpecSteps)

SlotsOf(cache) == 0..(NumSlots(cache) - 1)

SlotRow(cache, k) ==
    cache.data[(k \div cache.shape[2]) + 1][(k % cache.shape[2]) + 1]

\* the last call was the step of the scenario: the writing layer, on the
\* pool of 4 pages of 2 slots that holds B's context tokens at slots 2 and
\* 3, given the batch of sequences A and B
ScenarioStep ==
    /\ call.op = "forward"
    /\ call.mode = "write"
    /\ call.batch = ScenarioBatch
    /\ call.pool_before.shape = <<4, 2, 2, 128>>
    /\ HoldsToken(call.pool_before, 2, ContextIds[1], impl[1])
    /\ HoldsToken(call.pool_before, 3, ContextIds[2], impl[1])

NewTokensWritten(cache) ==
    /\ HoldsToken(cache, 0, 1, impl[1])
    /\ HoldsToken(cache, 1, 2, impl[1])
    /\ HoldsToken(cache, 2, 3, impl[1])

\* C11 as stated.  After the step of the scenario slots 0 and 1 hold A's
\* new keys and values, slot 2 holds B's new token, and the pool the kernel
\* reads holds the 3 positions of B: its 2 old context tokens and its new
\* token.
C11_AsStated ==
    ScenarioStep =>
        /\ NewTokensWritten(kv_cache)
        /\ Len(call.kernel_calls) = 1
        /\ LET read == call.kernel_calls[1].kv_cache
           IN  \E s1, s2, s3 \in SlotsOf(read) :
                 /\ HoldsToken(read, s1, ContextIds[1], impl[1])
                 /\ HoldsToken(read, s2, ContextIds[2], impl[1])
                 /\ HoldsToken(read, s3, 3, impl[1])

\* C11 as amended.  After the step of the scenario slots 0 and 1 hold A's
\* new keys and values and slot 2 holds B's new token in place of B's first
\* context token, which no slot holds any more; slot 3 still holds B's
\* second context token and slots 4 to 7 are as before; the kernel is
\* invoked once on that pool with the batch's context_lens (0, 2),
\* block_tables ([0], [1]), query_start_loc (0, 2, 3) and num_seqs 2.
C11_ScenarioStep ==
    ScenarioStep =>
        /\ call.error = "none"
        /\ NewTokensWritten(kv_cache)
        /\ HoldsToken(kv_cache, 3, ContextIds[2], impl[1])
        /\ \A s \in SlotsOf(kv_cache) :
              ~HoldsToken(kv_cache, s, ContextIds[1], impl[1])
        /\ \A s \in 4..7 : SlotRow(kv_cache, s) = SlotRow(call.pool_before, s)
        /\ Len(call.kernel_calls) = 1
        /\ call.kernel_calls[1].kv_cache = kv_cache
        /\ call.kernel_calls[1].context_lens = <<0, 2>>
        /\ call.kernel_calls[1].block_tables = << <<0>>, <<1>> >>
        /\ call.kernel_calls[1].query_start_loc = <<0, 2, 3>>
        /\ call.kernel_calls[1].num_seqs = 2

\* the step of the scenario was made and returned
C11_Witness ==
    /\ ScenarioStep
    /\ call.error = "none"
    /\ call.ret # None
    /\ kv_cache # call.pool_before

\* C12.  Every call of swap_blocks, for any source cache, destination cache
\* and mapping, raises an error and leaves both caches unchanged; it never
\* returns normally.
C12_SwapBlocksRejected ==
    call.op = "swap_blocks" =>
        /\ call.error
             = "RuntimeError: swap_blocks is not used for the TPU backend."
        /\ kv_cache = call.src_before
        /\ call.dst_after = call.dst_before

\* a swap of blocks from a pool that holds tokens to a fresh pool was asked
\* for
C12_Witness ==
    /\ call.op = "swap_blocks"
    /\ call.src_to_dst # <<>>
    /\ call.dst_before # call.src_before
    /\ \E s \in DOMAIN last_written : last_written[s] # 0
    /\ call.error # "none"

\* how many times op occurs in the trace of the last call
Occurrences(op) ==
    Cardinality({i \in DOMAIN call.trace : call.trace[i] = op})

\* C13.  Every forward call with a non-empty pool that does not fail invokes
\* the kernel exactly once, on the queries of the entire batch, whatever
\* num_seqs is and however the sequences' lengths differ, and passes the
\* batch's context_lens, block_tables, query_start_loc and num_seqs to that
\* call unchanged.
C13_SingleKernelCall ==
    (call.op = "forward" /\ call.pool_numel > 0 /\ call.error = "none") =>
        /\ Len(call.kernel_calls) = 1
        /\ Occurrences("ragged_paged_attention") = 1
        /\ LET k == call.kernel_calls[1]
           IN  /\ k.query.shape[1] = Len(call.batch.ids)
               /\ k.context_lens = call.batch.context_lens
               /\ k.block_tables = call.batch.block_tables
               /\ k.query_start_loc = call.batch.query_start_loc
               /\ k.num_seqs = call.batch.num_seqs

\* a batch of three sequences, one of them with context, went through one
\* kernel call
C13_Witness ==
    /\ call.op = "forward" /\ call.pool_numel > 0 /\ call.error = "none"
    /\ call.batch.num_seqs = 3
    /\ call.batch.context_lens = <<1, 0, 0>>
    /\ Len(call.kernel_calls) = 1

IsZeroRow(row) ==
    \A c \in DOMAIN row : \A e \in DOMAIN row[c] : row[c][e] = 0

\* C14.  After any sequence of forward calls (of the writing layer, of the
\* sharing layer, on the empty tensor of the profiling run) every pool slot
\* holds exactly the key and value of the token most recently written to it
\* by a call of the writing layer, every slot no such call wrote to is as
\* the pool was allocated, and a call changes only the slots listed in its
\* slot mapping.
C14_PoolContents ==
    /\ \A s \in DOMAIN last_written :
          IF last_written[s] = 0
          THEN IsZeroRow(SlotRow(kv_cache, s))
          ELSE HoldsToken(kv_cache, s, last_written[s], impl[1])
    /\ call.op = "forward" =>
          \A s \in SlotsOf(kv_cache) :
              (\/ call.mode # "write"
               \/ \A t \in DOMAIN call.batch.slot_mapping :
                     call.batch.slot_mapping[t] # s)
              => SlotRow(kv_cache, s) = SlotRow(call.pool_before, s)

\* a second step of the writing layer replaced the token an earlier step
\* wrote to a slot, and some slot was never written
C14_Witness ==
    /\ call.op = "forward" /\ call.mode = "write" /\ ncalls = 2
    /\ \E s \in DOMAIN last_written :
          /\ last_written[s] # 0
          /\ ~IsZeroRow(SlotRow(call.pool_before, s))
          /\ SlotRow(call.pool_before, s) # SlotRow(kv_cache, s)
    /\ \E s \in DOMAIN last_written : last_written[s] = 0

\* the padded key and value of the token with payload id, as one pool row
TokenRow(id, self, width) ==
    [c \in 1..(2 * self.num_kv_heads) |-> [j \in 1..width |->
        PaddedElem(IF c % 2 = 1 THEN 1 ELSE 2, id, (c + 1) \div 2, j,
                   self.head_size)]]

\* C15.  For every slot_mapping entry s of a write, the write places the
\* token's data at page s div pageSize, in-page offset s mod pageSize of the
\* 4-dimensional pool and at no other (page, offset): slot = page * pageSize
\* + offset, and distinct slots are distinct (page, offset) pairs.
C15_FlatSlotEncoding ==
    (call.op = "forward" /\ call.mode = "write" /\ call.error = "none") =>
        LET pageCount == kv_cache.shape[1]
            pageSize == kv_cache.shape[2]
            b == call.batch
        IN  /\ \A t \in DOMAIN b.ids :
                 /\ b.slot_mapping[t] < pageCount * pageSize
                 /\ \A page \in 0..(pageCount - 1), offset \in 0..(pageSize - 1) :
                       LET row == TokenRow(b.ids[t], impl[1], kv_cache.shape[4])
                       IN  IF /\ page = b.slot_mapping[t] \div pageSize
                              /\ offset = b.slot_mapping[t] % pageSize
                           THEN kv_cache.data[page + 1][offset + 1] = row
                           ELSE kv_cache.data[page + 1][offset + 1] = row
                                  => call.pool_before.data[page + 1][offset + 1]
                                       = row
                 /\ b.slot_mapping[t]
                      = (b.slot_mapping[t] \div pageSize) * pageSize
                          + (b.slot_mapping[t] % pageSize)
            /\ \A t, u \in DOMAIN b.ids :
                 b.slot_mapping[t] # b.slot_mapping[u] =>
                     <<b.slot_mapping[t] \div pageSize,
                       b.slot_mapping[t] % pageSize>>
                       # <<b.slot_mapping[u] \div pageSize,
                           b.slot_mapping[u] % pageSize>>

\* tokens were written to the last and the last but one slot of the second
\* page of a pool of 4 slots per page
C15_Witness ==
    /\ call.op = "forward" /\ call.mode = "write" /\ call.error = "none"
    /\ kv_cache.shape[2] = 4
    /\ call.batch.slot_mapping = <<7, 6>>
    /\ kv_cache.data[2][4] = TokenRow(call.batch.ids[1], impl[1], 128)
    /\ kv_cache.data[2][3] = TokenRow(call.batch.ids[2], impl[1], 128)

----------------------------------------------------------------------------
\* Claims about padding and alignment (SpecPadding)

\* the smallest multiple of 128 that is >= head_size
PhysicalWidth(head_size) ==
    CHOOSE w \in head_size..(head_size + 127) : w % 128 = 0

\* q is the query of the tokens `ids`, each head zero-padded to `width`
IsPaddedQuery(q, ids, self, width) ==
    /\ q.shape = <<Len(ids), self.num_heads, width>>
    /\ \A t \in DOMAIN ids : \A h \in 1..self.num_heads : \A j \in 1..width :
          q.data[t][h][j] = PaddedElem(0, ids[t], h, j, self.head_size)

\* C16.  Symmetric padding: forward zero-pads the trailing dimension of
\* query, key and value to the physical width if and only if head_size is
\* not a multiple of 128, slices the kernel's output back to head_size if
\* and only if it padded, so that the reshape of the output never fails,
\* and every call that returns returns an output of the query's shape
\* [num_tokens, num_heads * head_size].
C16_SymmetricPadding ==
    call.op = "forward" =>
        LET self == impl[1]
            n == Len(call.ids)
            width == PhysicalWidth(self.head_size)
        IN  /\ call.error = "none"
            /\ call.ret # None
            /\ call.ret[1].shape = <<n, self.num_heads * self.head_size>>
            /\ call.ret[1].shape = call.query_shape
            /\ call.pool_numel > 0 =>
                  /\ Len(call.kernel_calls) = 1
                  /\ IsPaddedQuery(call.kernel_calls[1].query, call.ids, self,
                                   width)
                  /\ call.padded_key_shape
                       = Some(<<n, self.num_kv_heads, width>>)
                  /\ call.padded_value_shape
                       = Some(<<n, self.num_kv_heads, width>>)
                  /\ (call.kernel_calls[1].query.shape[3] # self.head_size)
                       <=> (self.head_size % 128 # 0)
                  /\ \A t \in DOMAIN call.ids :
                        HoldsToken(kv_cache, call.slot_mapping[t],
                                   call.ids[t], self)

\* a call on a layer whose head size is above 128 and is padded returned
C16_Witness ==
    /\ call.op = "forward" /\ call.pool_numel > 0 /\ call.error = "none"
    /\ impl[1].head_size > 128
    /\ impl[1].head_size % 128 # 0
    /\ call.kernel_calls[1].query.shape[3] = 256
    /\ call.ret[1].shape = <<2, 2 * impl[1].head_size>>

\* C17.  Alignment consistency: for every head_size and num_kv_heads the
\* width to which forward pads key and value is the last dimension of the
\* shape get_kv_cache_shape returns for that head_size, the shape of the
\* pool, and the block write_to_kv_cache builds for T tokens has the shape
\* [T, 2 * num_kv_heads, that width]: one row of the flattened pool per
\* token, no element dropped or left over.
C17_AlignmentConsistency ==
    (call.op = "forward" /\ call.pool_numel > 0) =>
        LET self == impl[1]
            T == Len(call.ids)
            physicalWidth == kv_cache.shape[4]
        IN  /\ physicalWidth = PhysicalWidth(self.head_size)
            /\ kv_cache.shape[3] = 2 * self.num_kv_heads
            /\ call.padded_key_shape # None
            /\ call.padded_key_shape[1][3] = physicalWidth
            /\ call.padded_value_shape[1][3] = physicalWidth
            /\ call.kv_shape = Some(<<T, 2 * self.num_kv_heads, physicalWidth>>)
            /\ Product(call.kv_shape[1])
                 = Product(call.padded_key_shape[1])
                     + Product(call.padded_value_shape[1])
            /\ call.error \notin WriteErrors

\* a layer of two kv heads and a head size that is no multiple of 128 wrote
\* two tokens
C17_Witness ==
    /\ call.op = "forward" /\ call.pool_numel > 0 /\ call.error = "none"
    /\ impl[1].num_kv_heads = 2
    /\ impl[1].head_size % 128 # 0
    /\ call.kv_shape = Some(<<2, 4, kv_cache.shape[4]>>)
    /\ kv_cache.shape[4] > impl[1].head_size

====
